---- MODULE Spec2Model ----
(***************************************************************************)
(* Session-scoped conversational turn executor of src/app.py:              *)
(* the global SESSION_ID, chat_with_agent_async / chat_with_agent,         *)
(* reset_session and the respond handler wired to the Gradio components.   *)
(*                                                                         *)
(* Text is modelled as a tuple of one-character strings, so that string    *)
(* concatenation (f"Error: {str(e)}") and "begins with" are computed.      *)
(* Session identifiers are the naturals 1, 2, ... in order of creation;    *)
(* the unset SESSION_ID (Python None) is NoSession.                        *)
(***************************************************************************)
EXTENDS Naturals, Sequences, FiniteSets

\* ------------------------------------------------------------------ bounds
MaxTurns == 3
MaxResets == 2
MaxEvents == 3
MaxOverlapTurns == 2

\* --------------------------------------------------------------- constants
NoSession == 0

Turns == 1..MaxTurns

ErrorPrefix == <<"E", "r", "r", "o", "r", ":", " ">>
EmptyText == <<>>
T1430 == <<"1", "4", ":", "3", "0">>
T1200 == <<"1", "2", ":", "0", "0">>
Boom == <<"b", "o", "o", "m">>

\* What the user may type into the textbox (the empty message included).
Messages == {<<"t", "i", "m", "e", "?">>, EmptyText}

\* str(e) of the errors the external runtime may raise.
ExcMsgs == {Boom}

\* The parts of an event's content: a list of text parts.
PartSeqs == {<<>>, <<[text |-> T1430]>>, <<[text |-> T1200], [text |-> T1430]>>}

\* An event of the stream: is_final_response(), whether content is present
\* (has_content = FALSE models content None), and content.parts.
Events ==
    {e \in [kind : {"event"}, final : BOOLEAN, has_content : BOOLEAN, parts : PartSeqs] :
        ~e.has_content => e.parts = <<>>}

\* Advancing the generator either yields an event or raises.
Raises == [kind : {"raise"}, msg : ExcMsgs]
Items == Events \cup Raises

RECURSIVE SeqsUpTo(_, _)
SeqsUpTo(S, n) ==
    IF n = 0 THEN {<<>>}
    ELSE LET shorter == SeqsUpTo(S, n - 1)
         IN  shorter \cup {Append(s, x) : s \in {t \in shorter : Len(t) = n - 1}, x \in S}

\* The event sequences run_async may produce for one turn.
Streams == SeqsUpTo(Items, MaxEvents)

VARIABLES
    SESSION_ID,     \* the module global (NoSession when None)
    chatbot,        \* value of the gr.Chatbot component: sequence of messages
    msg,            \* value of the gr.Textbox component
    pc,             \* pc[k]: where the handler invocation of turn k stands
    message,        \* respond's argument 'message' of turn k
    chat_history,   \* respond's argument 'chat_history' of turn k
    session,        \* the session returned by create_session to turn k
    session_id,     \* the session_id turn k passed to run_async
    bot_response,   \* what chat_with_agent returned to respond in turn k
    sessions,       \* number of sessions the session service has created
    runtimeCalls,   \* number of calls made to the external runtime
    resets,         \* number of reset_session calls completed
    obs,            \* per turn: what the turn did (observation only)
    events_async,   \* single-turn harness: the event sequence of the turn
    turn_result     \* single-turn harness: what chat_with_agent did with it

vars == <<SESSION_ID, chatbot, msg, pc, message, chat_history, session, session_id,
          bot_response, sessions, runtimeCalls, resets, obs, events_async, turn_result>>

turnVars == <<events_async, turn_result>>

\* ------------------------------------------------------------ pure helpers

\* line 158: event.is_final_response() and event.content and event.content.parts
IsFinalWithParts(event) ==
    event.final /\ event.has_content /\ Len(event.parts) > 0

\* The loop without the is_final_response() test: the first event that has
\* parts ends it.
RECURSIVE async_for_any(_, _)
async_for_any(events, i) ==
    IF i > Len(events)
    THEN [raised |-> FALSE, value |-> EmptyText, drawn |-> Len(events)]
    ELSE IF events[i].kind = "raise"
    THEN [raised |-> TRUE, value |-> events[i].msg, drawn |-> i]
    ELSE IF events[i].has_content /\ Len(events[i].parts) > 0
    THEN [raised |-> FALSE, value |-> events[i].parts[1].text, drawn |-> i]
    ELSE async_for_any(events, i + 1)

\* The loop without line 146 (response_text = ""): returning the unbound
\* local raises when no event ended the loop.
RECURSIVE async_for_unbound(_, _)
async_for_unbound(events, i) ==
    IF i > Len(events)
    THEN [raised |-> TRUE, value |-> Boom, drawn |-> Len(events)]
    ELSE IF events[i].kind = "raise"
    THEN [raised |-> TRUE, value |-> events[i].msg, drawn |-> i]
    ELSE IF IsFinalWithParts(events[i])
    THEN [raised |-> FALSE, value |-> events[i].parts[1].text, drawn |-> i]
    ELSE async_for_unbound(events, i + 1)

\* lines 146, 156-163: the async-for loop over the events, from item i on.
\* Result: whether it raised, the value (response_text, or str(e)) and the
\* number of items drawn from the generator.
RECURSIVE async_for(_, _)
async_for(events, i) ==
    IF i > Len(events)
    THEN [raised |-> FALSE, value |-> EmptyText, drawn |-> Len(events)]
    ELSE IF events[i].kind = "raise"
    THEN [raised |-> TRUE, value |-> events[i].msg, drawn |-> i]
    ELSE IF IsFinalWithParts(events[i])
    THEN [raised |-> FALSE, value |-> events[i].parts[1].text, drawn |-> i]
    ELSE async_for(events, i + 1)

\* The wrapper without its try/except: a raised error reaches the caller.
chat_with_agent_unguarded(result) ==
    [returned |-> ~result.raised, value |-> result.value]

\* lines 188-194: try: return asyncio.run(...) except Exception as e:
\* return f"Error: {str(e)}".  'result' is how the coroutine ended.
chat_with_agent(result) ==
    IF result.raised
    THEN [returned |-> TRUE, value |-> ErrorPrefix \o result.value]
    ELSE [returned |-> TRUE, value |-> result.value]

\* How the loop of lines 156-163 can end over the streams run_async may produce.
Drained == {async_for(events, 1) : events \in Streams}

NoObs ==
    [epoch |-> 0, sidBefore |-> NoSession, creates |-> 0, createEpoch |-> 0, created |-> NoSession,
     ran |-> FALSE, ranWith |-> NoSession, raised |-> "none"]

NoResult == [done |-> FALSE, returned |-> FALSE, value |-> EmptyText, drawn |-> 0]

InFlight(k) == pc[k] \notin {"idle", "done", "failed"}

\* -------------------------------------------------------------------- Init
InitSession ==
    /\ SESSION_ID = NoSession
    /\ chatbot = <<>>
    /\ msg = EmptyText
    /\ pc = [k \in Turns |-> "idle"]
    /\ message = [k \in Turns |-> EmptyText]
    /\ chat_history = [k \in Turns |-> <<>>]
    /\ session = [k \in Turns |-> NoSession]
    /\ session_id = [k \in Turns |-> NoSession]
    /\ bot_response = [k \in Turns |-> EmptyText]
    /\ sessions = 0
    /\ runtimeCalls = 0
    /\ resets = 0
    /\ obs = [k \in Turns |-> NoObs]

Init ==
    /\ InitSession
    /\ events_async = <<>>
    /\ turn_result = NoResult

\* ----------------------------------------------------------------- actions

\* msg.submit -> respond(message, chat_history) -> chat_with_agent ->
\* asyncio.run(chat_with_agent_async(message)): the k-th submit is taken up.
Submit(k, m) ==
    /\ pc[k] = "idle"
    /\ IF k = 1 THEN TRUE ELSE pc[k - 1] # "idle"
    /\ msg' = m
    /\ message' = [message EXCEPT ![k] = m]
    /\ chat_history' = [chat_history EXCEPT ![k] = chatbot]
    /\ obs' = [obs EXCEPT ![k].epoch = resets, ![k].sidBefore = SESSION_ID]
    /\ pc' = [pc EXCEPT ![k] = "check"]
    /\ UNCHANGED <<SESSION_ID, chatbot, session, session_id, bot_response,
                   sessions, runtimeCalls, resets, turnVars>>

\* The session test with the test removed: always create.
CheckSessionAlways(k) ==
    /\ pc[k] = "check"
    /\ pc' = [pc EXCEPT ![k] = "create"]
    /\ UNCHANGED <<SESSION_ID, chatbot, msg, message, chat_history, session, session_id,
                   bot_response, sessions, runtimeCalls, resets, obs, turnVars>>

\* line 123: if SESSION_ID is None
CheckSession(k) ==
    /\ pc[k] = "check"
    /\ pc' = [pc EXCEPT ![k] = IF SESSION_ID = NoSession THEN "create" ELSE "run"]
    /\ UNCHANGED <<SESSION_ID, chatbot, msg, message, chat_history, session, session_id,
                   bot_response, sessions, runtimeCalls, resets, obs, turnVars>>

\* create_session whose error is swallowed: the turn goes on to run_async.
CreateSessionSwallows(k) ==
    /\ pc[k] = "create"
    /\ runtimeCalls' = runtimeCalls + 1
    /\ \/ /\ sessions' = sessions + 1
          /\ session' = [session EXCEPT ![k] = sessions + 1]
          /\ obs' = [obs EXCEPT ![k].creates = @ + 1, ![k].createEpoch = resets,
                                ![k].created = sessions + 1]
          /\ pc' = [pc EXCEPT ![k] = "store"]
       \/ /\ obs' = [obs EXCEPT ![k].creates = @ + 1, ![k].createEpoch = resets,
                                ![k].raised = "create"]
          /\ pc' = [pc EXCEPT ![k] = "run"]
          /\ UNCHANGED <<sessions, session>>
    /\ UNCHANGED <<SESSION_ID, chatbot, msg, message, chat_history, session_id,
                   bot_response, resets, turnVars>>

\* lines 125-128: await runner.session_service.create_session(...): the
\* service returns a new session, or raises; the error is caught at 192-194.
CreateSession(k) ==
    /\ pc[k] = "create"
    /\ runtimeCalls' = runtimeCalls + 1
    /\ \/ /\ sessions' = sessions + 1
          /\ session' = [session EXCEPT ![k] = sessions + 1]
          /\ obs' = [obs EXCEPT ![k].creates = @ + 1, ![k].createEpoch = resets,
                                ![k].created = sessions + 1]
          /\ pc' = [pc EXCEPT ![k] = "store"]
          /\ UNCHANGED bot_response
       \/ \E e \in ExcMsgs :
            LET r == chat_with_agent([raised |-> TRUE, value |-> e])
            IN  /\ obs' = [obs EXCEPT ![k].creates = @ + 1, ![k].createEpoch = resets,
                                      ![k].raised = "create"]
                /\ bot_response' = [bot_response EXCEPT ![k] = r.value]
                /\ pc' = [pc EXCEPT ![k] = IF r.returned THEN "append" ELSE "failed"]
                /\ UNCHANGED <<sessions, session>>
    /\ UNCHANGED <<SESSION_ID, chatbot, msg, message, chat_history, session_id,
                   resets, turnVars>>

\* line 129: SESSION_ID = session.id
StoreSession(k) ==
    /\ pc[k] = "store"
    /\ SESSION_ID' = session[k]
    /\ pc' = [pc EXCEPT ![k] = "run"]
    /\ UNCHANGED <<chatbot, msg, message, chat_history, session, session_id, bot_response,
                   sessions, runtimeCalls, resets, obs, turnVars>>

\* lines 135-151: runner.run_async(user_id, session_id=SESSION_ID, new_message)
RunAsync(k) ==
    /\ pc[k] = "run"
    /\ session_id' = [session_id EXCEPT ![k] = SESSION_ID]
    /\ runtimeCalls' = runtimeCalls + 1
    /\ obs' = [obs EXCEPT ![k].ran = TRUE, ![k].ranWith = SESSION_ID]
    /\ pc' = [pc EXCEPT ![k] = "iterate"]
    /\ UNCHANGED <<SESSION_ID, chatbot, msg, message, chat_history, session, bot_response,
                   sessions, resets, turnVars>>

\* The turn end that drops the session when the stream raised.
IterateDropsSession(k) ==
    /\ pc[k] = "iterate"
    /\ \E result \in Drained :
         LET r == chat_with_agent(result)
         IN  /\ bot_response' = [bot_response EXCEPT ![k] = r.value]
             /\ obs' = [obs EXCEPT ![k].raised = IF result.raised THEN "stream" ELSE @]
             /\ pc' = [pc EXCEPT ![k] = IF r.returned THEN "append" ELSE "failed"]
             /\ SESSION_ID' = IF result.raised THEN NoSession ELSE SESSION_ID
    /\ UNCHANGED <<chatbot, msg, message, chat_history, session, session_id,
                   sessions, runtimeCalls, resets, turnVars>>

\* lines 156-163 and 188-194: run_async produces one of Streams, the loop
\* drains it, the coroutine returns response_text or raises, and
\* chat_with_agent hands the outcome to respond.
Iterate(k) ==
    /\ pc[k] = "iterate"
    /\ \E result \in Drained :
         LET r == chat_with_agent(result)
         IN  /\ bot_response' = [bot_response EXCEPT ![k] = r.value]
             /\ obs' = [obs EXCEPT ![k].raised = IF result.raised THEN "stream" ELSE @]
             /\ pc' = [pc EXCEPT ![k] = IF r.returned THEN "append" ELSE "failed"]
    /\ UNCHANGED <<SESSION_ID, chatbot, msg, message, chat_history, session, session_id,
                   sessions, runtimeCalls, resets, turnVars>>

\* respond that appends the assistant message only.
AppendAssistantOnly(k) ==
    /\ pc[k] = "append"
    /\ chatbot' = chat_history[k] \o <<[role |-> "assistant", content |-> bot_response[k]]>>
    /\ msg' = EmptyText
    /\ pc' = [pc EXCEPT ![k] = "done"]
    /\ message' = [message EXCEPT ![k] = EmptyText]
    /\ chat_history' = [chat_history EXCEPT ![k] = <<>>]
    /\ session' = [session EXCEPT ![k] = NoSession]
    /\ session_id' = [session_id EXCEPT ![k] = NoSession]
    /\ bot_response' = [bot_response EXCEPT ![k] = EmptyText]
    /\ UNCHANGED <<SESSION_ID, sessions, runtimeCalls, resets, obs, turnVars>>

\* lines 293-297 and 302-306: both messages are appended, respond returns
\* ("", chat_history) and Gradio writes them to msg and chatbot.
AppendAndReturn(k) ==
    /\ pc[k] = "append"
    /\ chatbot' = chat_history[k] \o <<[role |-> "user", content |-> message[k]],
                                      [role |-> "assistant", content |-> bot_response[k]]>>
    /\ msg' = EmptyText
    /\ pc' = [pc EXCEPT ![k] = "done"]
    /\ message' = [message EXCEPT ![k] = EmptyText]
    /\ chat_history' = [chat_history EXCEPT ![k] = <<>>]
    /\ session' = [session EXCEPT ![k] = NoSession]
    /\ session_id' = [session_id EXCEPT ![k] = NoSession]
    /\ bot_response' = [bot_response EXCEPT ![k] = EmptyText]
    /\ UNCHANGED <<SESSION_ID, sessions, runtimeCalls, resets, obs, turnVars>>

\* reset_session that forgets to clear the global.
ResetSessionKeepsId ==
    /\ resets < MaxResets
    /\ chatbot' = <<>>
    /\ resets' = resets + 1
    /\ UNCHANGED <<SESSION_ID, msg, pc, message, chat_history, session, session_id,
                   bot_response, sessions, runtimeCalls, obs, turnVars>>

\* lines 197-210 and 309-313: clear.click -> reset_session() -> chatbot
ResetSession ==
    /\ resets < MaxResets
    /\ SESSION_ID' = NoSession
    /\ chatbot' = <<>>
    /\ resets' = resets + 1
    /\ UNCHANGED <<msg, pc, message, chat_history, session, session_id, bot_response,
                   sessions, runtimeCalls, obs, turnVars>>

\* --------------------------------------------------- handlers one at a time
NoneInFlight == \A k \in Turns : ~InFlight(k)

SubmitAlone(k, m) == NoneInFlight /\ Submit(k, m)

ResetAlone == NoneInFlight /\ ResetSession

Step(k) ==
    \/ CheckSession(k)
    \/ CreateSession(k)
    \/ StoreSession(k)
    \/ RunAsync(k)
    \/ Iterate(k)
    \/ AppendAndReturn(k)

Next ==
    \/ \E k \in Turns, m \in Messages : SubmitAlone(k, m)
    \/ \E k \in Turns : Step(k)
    \/ ResetAlone

Spec == Init /\ [][Next]_vars

\* ---------------------------------------------------- overlapping handlers
SubmitOverlapping(k, m) == k <= MaxOverlapTurns /\ Submit(k, m)

NextOverlap ==
    \/ \E k \in Turns, m \in Messages : SubmitOverlapping(k, m)
    \/ \E k \in Turns : Step(k)
    \/ ResetSession

SpecOverlap == Init /\ [][NextOverlap]_vars

\* ------------------------------------------- one turn over a given stream
InitTurn ==
    /\ InitSession
    /\ events_async \in Streams
    /\ turn_result = NoResult

\* lines 146-163 and 188-194 applied to the event sequence events_async.
RunTurn ==
    /\ ~turn_result.done
    /\ LET result == async_for(events_async, 1)
           r == chat_with_agent(result)
       IN  turn_result' = [done |-> TRUE, returned |-> r.returned, value |-> r.value,
                           drawn |-> result.drawn]
    /\ UNCHANGED <<SESSION_ID, chatbot, msg, pc, message, chat_history, session, session_id,
                   bot_response, sessions, runtimeCalls, resets, obs, events_async>>

SpecTurn == InitTurn /\ [][RunTurn]_vars

\* ================================================================= claims

Started(k) == pc[k] # "idle"

\* The turns submitted after exactly e resets: one conversation.
Conversation(e) == {k \in Turns : Started(k) /\ obs[k].epoch = e}

\* Turn k is past its create_session call, if it makes one.
PastCreate(k) == pc[k] \in {"store", "run", "iterate", "append", "done", "failed"}

StartsWith(text, prefix) ==
    /\ Len(text) >= Len(prefix)
    /\ SubSeq(text, 1, Len(prefix)) = prefix

\* C1: in a conversation (the turns between two resets, run one at a time)
\* in which no create_session call failed, create_session is called at most
\* once and only by the first turn, which has called it once it is past that
\* point; every run_async call gets the same session identifier, which is
\* set, is the created one and is the one SESSION_ID keeps holding.
C1_SessionCreatedOnceAndStable ==
    \A e \in 0..MaxResets :
        LET conv == Conversation(e)
        IN  (\A k \in conv : obs[k].raised # "create") =>
              /\ \A k \in conv : obs[k].creates <= 1
              /\ \A k \in conv :
                    obs[k].creates = 1 => \A j \in conv : j >= k
              /\ \A k \in conv :
                    (PastCreate(k) /\ \A j \in conv : j >= k) => obs[k].creates = 1
              /\ \A j, k \in conv :
                    (obs[j].ran /\ obs[k].ran) => obs[j].ranWith = obs[k].ranWith
              /\ \A j, k \in conv :
                    (obs[k].ran /\ obs[j].creates = 1 /\ PastCreate(j))
                        => obs[k].ranWith = obs[j].created
              /\ \A k \in conv :
                    obs[k].ran => obs[k].ranWith # NoSession
              /\ \A k \in conv :
                    (obs[k].ran /\ e = resets) => SESSION_ID = obs[k].ranWith

\* C1 witness: the second turn of a conversation has run against the session
\* the first turn created, without creating one itself.
C1_Witness ==
    \E j, k \in Turns :
        /\ j < k
        /\ obs[j].epoch = obs[k].epoch
        /\ obs[j].creates = 1 /\ obs[j].ran
        /\ obs[k].creates = 0 /\ obs[k].ran
        /\ obs[k].ranWith = obs[j].created
        /\ pc[k] = "done"

\* Turn k is the first turn submitted after a reset.
FirstAfterReset(k) ==
    /\ Started(k)
    /\ obs[k].epoch > 0
    /\ \A j \in Turns : j < k => obs[j].epoch < obs[k].epoch

\* What C2 says of the first turn after a reset, once it is past line 129.
C2_FirstTurnCreatesAnew ==
    \A k \in Turns :
        (FirstAfterReset(k) /\ PastCreate(k)) =>
            /\ obs[k].creates = 1
            /\ obs[k].raised # "create" => obs[k].created # NoSession
            /\ obs[k].ran =>
                 /\ obs[k].ranWith # NoSession
                 /\ obs[k].ranWith = obs[k].created
                 /\ \A j \in Turns : j < k => obs[j].created # obs[k].ranWith

\* C2: a reset_session step sets SESSION_ID to unset, yields the empty
\* history and makes no call to the external runtime (no call counted, no
\* session created); the first turn after a reset makes exactly one
\* create_session call and, when it runs, runs against the identifier that
\* call returned, which is none of the identifiers created before.
C2_ResetThenFreshSession ==
    [][ /\ (resets' = resets + 1) =>
              /\ SESSION_ID' = NoSession
              /\ chatbot' = <<>>
              /\ runtimeCalls' = runtimeCalls
              /\ sessions' = sessions
        /\ C2_FirstTurnCreatesAnew' ]_vars

\* C2 witness: a session existed, a reset followed, and the first turn after
\* it has completed against a session of its own.
C2_Witness ==
    \E j, k \in Turns :
        /\ j < k
        /\ obs[j].created # NoSession /\ obs[j].ran
        /\ FirstAfterReset(k)
        /\ obs[k].ran /\ obs[k].creates = 1
        /\ pc[k] = "done"
        /\ Len(chatbot) = 2

\* Item i of the stream is an event that is final and has non-empty parts.
FinalAt(events, i) == events[i].kind = "event" /\ IsFinalWithParts(events[i])

\* C3: when the stream's first final event with non-empty parts is at index q
\* and only events that are not such precede it, the turn returns the text
\* of that event's first part and exactly q items were drawn.
C3_FirstFinalEventWins ==
    turn_result.done =>
        \A q \in 1..Len(events_async) :
            ( /\ FinalAt(events_async, q)
              /\ \A j \in 1..(q - 1) :
                    events_async[j].kind = "event" /\ ~FinalAt(events_async, j) ) =>
                /\ turn_result.returned
                /\ turn_result.value = events_async[q].parts[1].text
                /\ turn_result.drawn = q

\* C3 witness: a skipped event with parts, then a final event with two parts,
\* then another final event whose text differs; the turn is over.
C3_Witness ==
    /\ turn_result.done
    /\ Len(events_async) = 3
    /\ events_async[1].kind = "event" /\ ~events_async[1].final
    /\ Len(events_async[1].parts) > 0
    /\ FinalAt(events_async, 2) /\ Len(events_async[2].parts) = 2
    /\ FinalAt(events_async, 3)
    /\ events_async[3].parts[1].text # events_async[2].parts[1].text
    /\ turn_result.value = T1200

\* C4: when no item of the stream raises and no event is final with
\* non-empty parts (the empty stream included), every item is drawn and the
\* turn returns the empty string, which is no "Error: " string.
C4_NoFinalEventGivesEmpty ==
    ( /\ turn_result.done
      /\ \A i \in 1..Len(events_async) :
            events_async[i].kind = "event" /\ ~FinalAt(events_async, i) ) =>
        /\ turn_result.returned
        /\ turn_result.value = EmptyText
        /\ ~StartsWith(turn_result.value, ErrorPrefix)
        /\ turn_result.drawn = Len(events_async)

\* C4 witness: three events, none final with parts (one final without
\* content, one not final with parts), all drawn.
C4_Witness ==
    /\ turn_result.done
    /\ Len(events_async) = 3
    /\ \A i \in 1..3 : events_async[i].kind = "event" /\ ~FinalAt(events_async, i)
    /\ \E i \in 1..3 : events_async[i].final
    /\ \E i \in 1..3 : Len(events_async[i].parts) > 0
    /\ turn_result.drawn = 3

\* C5: a turn in which create_session or the event stream raised hands
\* respond a string beginning with "Error: "; no handler invocation ever
\* ends by the error reaching its caller; and after such a turn the next
\* submit can be taken up.
C5_ErrorsContained ==
    \A k \in Turns :
        /\ pc[k] # "failed"
        /\ (pc[k] = "append" /\ obs[k].raised # "none")
              => StartsWith(bot_response[k], ErrorPrefix)
        /\ (pc[k] = "done" /\ obs[k].raised # "none" /\ k < MaxTurns
                /\ pc[IF k < MaxTurns THEN k + 1 ELSE k] = "idle")
              => \A m \in Messages : ENABLED SubmitAlone(k + 1, m)

\* C5 witness: a turn failed at create_session, respond returned, and the
\* next turn, whose stream raised, is about to return its error string.
C5_Witness ==
    \E k \in Turns :
        /\ k < MaxTurns
        /\ pc[k] = "done" /\ obs[k].raised = "create"
        /\ pc[IF k < MaxTurns THEN k + 1 ELSE k] = "append"
        /\ obs[IF k < MaxTurns THEN k + 1 ELSE k].raised = "stream"

\* The step in which respond of turn k returns.
ReturnStep(k) == pc[k] = "append" /\ pc'[k] = "done"

\* The turn after turn k, where there is one.
Succ(k) == IF k < MaxTurns THEN k + 1 ELSE k

\* The turn after a turn whose stream raised, submitted with no reset in
\* between, creates no session and runs against the same session.
C6_NextTurnReuses ==
    \A k \in Turns :
        (k < MaxTurns /\ obs[k].raised = "stream" /\ Started(Succ(k))
            /\ obs[Succ(k)].epoch = obs[k].epoch) =>
            /\ obs[Succ(k)].creates = 0
            /\ pc[Succ(k)] \notin {"create", "store"}
            /\ obs[Succ(k)].ran => obs[Succ(k)].ranWith = obs[k].ranWith

\* C6 as stated: when the stream of a turn raised, SESSION_ID after the turn
\* is the one held when the turn was submitted, the history respond returns
\* is the history it was given, and the next turn reuses the session.
C6_FailedTurnChangesNothing ==
    [][ /\ \A k \in Turns :
              (ReturnStep(k) /\ obs[k].raised = "stream") =>
                  /\ SESSION_ID' = obs[k].sidBefore
                  /\ chatbot' = chat_history[k]
        /\ C6_NextTurnReuses' ]_vars

\* C6 amended: when the stream of a turn raised, catching the error changes
\* SESSION_ID in no step; after the turn SESSION_ID is the identifier the
\* turn ran against (the one held at submit when one was held); the history
\* respond returns is the history it was given extended by the user message
\* and an assistant message "Error: " + str(e); and the next turn, when no
\* reset comes between, creates no session and runs against the same one.
C6_FailedTurnKeepsSession ==
    [][ /\ \A k \in Turns :
              (pc[k] = "iterate" /\ obs'[k].raised = "stream") =>
                  SESSION_ID' = SESSION_ID
        /\ \A k \in Turns :
              (ReturnStep(k) /\ obs[k].raised = "stream") =>
                  /\ SESSION_ID' = obs[k].ranWith
                  /\ SESSION_ID' # NoSession
                  /\ obs[k].sidBefore # NoSession => SESSION_ID' = obs[k].sidBefore
                  /\ Len(chatbot') = Len(chat_history[k]) + 2
                  /\ SubSeq(chatbot', 1, Len(chat_history[k])) = chat_history[k]
                  /\ chatbot'[Len(chatbot') - 1] = [role |-> "user", content |-> message[k]]
                  /\ chatbot'[Len(chatbot')].role = "assistant"
                  /\ \E e \in ExcMsgs : chatbot'[Len(chatbot')].content = ErrorPrefix \o e
        /\ C6_NextTurnReuses' ]_vars

\* C6 witness: a turn whose stream raised has returned, and the next turn of
\* the same conversation has run against the same session, creating none.
C6_Witness ==
    \E k \in Turns :
        /\ k < MaxTurns
        /\ obs[k].raised = "stream" /\ obs[k].sidBefore # NoSession
        /\ obs[Succ(k)].epoch = obs[k].epoch
        /\ obs[Succ(k)].ran /\ obs[Succ(k)].creates = 0
        /\ obs[Succ(k)].ranWith = obs[k].ranWith
        /\ pc[Succ(k)] = "done"

\* C7 as stated, its part on sessions: of the turns of one conversation in
\* which no create_session call failed, at most one calls create_session,
\* and no two of them run against different session identifiers.
C7_OneSessionPerConversation ==
    \A e \in 0..MaxResets :
        LET conv == Conversation(e)
        IN  (\A k \in conv : obs[k].raised # "create") =>
              /\ \A k \in conv : obs[k].creates <= 1
              /\ \A j, k \in conv : (obs[j].creates = 1 /\ obs[k].creates = 1) => j = k
              /\ \A j, k \in conv :
                    (obs[j].ran /\ obs[k].ran) => obs[j].ranWith = obs[k].ranWith

\* C8: a turn whose create_session call raised made exactly one such call,
\* never called run_async and got no session; its result is "Error: " +
\* str(e); SESSION_ID stays unset until the next turn creates a session; and
\* the next turn, past its session test, calls create_session again.
C8_CreateFailureAbortsTurn ==
    \A k \in Turns :
        obs[k].raised = "create" =>
            /\ obs[k].creates = 1
            /\ ~obs[k].ran
            /\ obs[k].created = NoSession
            /\ pc[k] \in {"append", "done"}
            /\ pc[k] = "append" => \E e \in ExcMsgs : bot_response[k] = ErrorPrefix \o e
            /\ (k = MaxTurns \/ pc[Succ(k)] \in {"idle", "check", "create"})
                  => SESSION_ID = NoSession
            /\ (k < MaxTurns /\ pc[Succ(k)] \notin {"idle", "check"})
                  => (pc[Succ(k)] = "create" \/ obs[Succ(k)].creates = 1)

\* C8 witness: create_session raised in one turn, and the next turn created a
\* session and ran against it.
C8_Witness ==
    \E k \in Turns :
        /\ k < MaxTurns
        /\ obs[k].raised = "create" /\ pc[k] = "done"
        /\ obs[Succ(k)].creates = 1 /\ obs[Succ(k)].ran
        /\ SESSION_ID = obs[Succ(k)].created

\* The history holds two messages per turn completed since the last reset,
\* a user message followed by an assistant message.
C9_HistoryShape ==
    /\ Len(chatbot) = 2 * Cardinality({k \in Conversation(resets) : pc[k] = "done"})
    /\ \A i \in 1..Len(chatbot) :
          chatbot[i].role = IF i % 2 = 1 THEN "user" ELSE "assistant"

\* C9: when respond returns, the textbox gets the empty string and the
\* history is the prior history extended by the user message and then the
\* assistant message of that turn; a reset yields the empty history; every
\* other step (chat_with_agent and chat_with_agent_async among them) leaves
\* the history as it is; and the history always has the shape above.
C9_HistoryAppendOnly ==
    [][ /\ \A k \in Turns :
              ReturnStep(k) =>
                  /\ msg' = EmptyText
                  /\ chatbot' = chatbot \o
                        <<[role |-> "user", content |-> message[k]],
                          [role |-> "assistant", content |-> bot_response[k]]>>
        /\ (resets' = resets + 1) => chatbot' = <<>>
        /\ ((resets' = resets) /\ \A k \in Turns : ~ReturnStep(k)) => chatbot' = chatbot
        /\ C9_HistoryShape' ]_vars

\* C9 witness: after a reset, two turns with different messages have been
\* appended.
C9_Witness ==
    /\ resets > 0
    /\ Len(chatbot) = 4
    /\ chatbot[1].content # chatbot[3].content
    /\ chatbot[2].content # chatbot[4].content

\* C10 as stated: run_async is never called with the unset identifier, and
\* no turn runs against a session created before a reset that had completed
\* when the turn was submitted.
C10_ResetNeverOverwritten ==
    \A k \in Turns :
        obs[k].ran =>
            /\ obs[k].ranWith # NoSession
            /\ \A j \in Turns :
                  (obs[j].created # NoSession /\ obs[j].created = obs[k].ranWith)
                      => obs[j].createEpoch >= obs[k].epoch

====
